---- MODULE Spec2Model ----
(***************************************************************************)
(* Model of opendlv-video-h264-recorder.cpp (main): the capture loop on    *)
(* the main thread, the OD4Session callback on bus threads, the shared     *)
(* memory producer, the termination signal, and the recording file behind  *)
(* recFileMutex.                                                           *)
(*                                                                         *)
(* The recording file is modelled as the bytes already handed to the       *)
(* operating system (disk) followed by the bytes still in the stream       *)
(* buffer (buf).  recFile.write() copies bytes into the stream buffer in   *)
(* chunks and may spill the buffer to disk at any chunk; recFile.flush()   *)
(* moves the whole buffer to disk.  Writes and flushes are assumed to      *)
(* succeed once the file was opened.                                       *)
(***************************************************************************)
EXTENDS Integers, Sequences, FiniteSets, TLC

\* ---------------------------------------------------------------- bounds
MaxFrames == 2      \* frames the external producer puts into shared memory
MaxDeliver == 2     \* envelopes the bus runtime hands to the callback
MaxTime == 1        \* largest value of the clock
NumBus == 2         \* threads of the bus runtime that may run the callback
ChunkSize == 4      \* bytes one step of recFile.write() copies

\* ------------------------------------------------------ program constants
HdrA == 13          \* 0x0D, first byte of the serialized envelope header
HdrB == 164         \* 0xA4, second byte of the serialized envelope header
ImageReadingID == 1055   \* opendlv::proxy::ImageReading::ID()
FourccXYZ == 120    \* stands for the fourcc string "xyz"

Main == 0          \* the thread of main; the bus threads are 1..NumBus
Bus == 1..NumBus
Threads == {Main} \cup Bus
None == -1         \* no holder
Producer == -2     \* the external process filling the shared memory

WIDTH == 640
HEIGHT == 480
SmSize == 1         \* sharedMemory->size() of a region that has bytes
BusDataType == 19   \* dataType of the envelopes arriving from the bus
BusSender == 7      \* senderStamp of the envelopes arriving from the bus
OldByte == 99       \* content of a file already present at the output path

VARIABLES
    pc,             \* position of every thread
    retCode,        \* retCode of main
    argsOk,         \* --name, --width and --height were all given
    CID,            \* --cid (0: no bus channel)
    ID,             \* --id
    smValid,        \* sharedMemory->valid()
    smLock,         \* holder of the shared memory region lock
    notified,       \* the producer signalled a frame since the last wait()
    smTimeStamp,    \* sharedMemory->getTimeStamp(): <<available, time>>
    smData,         \* bytes in the shared memory region
    isTerminated,   \* cluon::TerminateHandler::instance().isTerminated
    now,            \* cluon::time::now()
    recFileMutex,   \* holder of recFileMutex
    recFile,        \* the fstream: [isOpen, good]
    disk,           \* bytes of the file at NAME_RECFILE
    buf,            \* bytes in the stream buffer of recFile
    od4,            \* "null", "running" or "stopped"
    sampleTimeStamp,\* local of main
    totalSize,      \* local of the loop body
    data,           \* local of the loop body: the snapshot
    envelope,       \* per thread: the envelope being appended
    serialized,     \* per thread: the string returned by serializeEnvelope
    pos,            \* per thread: bytes of serialized already written
    frames,         \* frames produced so far
    delivered,      \* history: envelopes handed to the callback, in order
    lockOrder,      \* history: envelopes in order of recFileMutex acquisition
    truncations,    \* history: number of times the file was truncated
    framesRead,     \* history: snapshots of nonzero size taken by the loop
    attached,       \* history: the shared memory attach succeeded
    readsAfterTerm  \* history: snapshots started after isTerminated was set

vars == <<pc, retCode, argsOk, CID, ID, smValid, smLock, notified,
          smTimeStamp, smData, isTerminated, now, recFileMutex, recFile,
          disk, buf, od4, sampleTimeStamp, totalSize, data, envelope,
          serialized, pos, frames, delivered, lockOrder, truncations,
          framesRead, attached, readsAfterTerm>>

envVars == <<smValid, smLock, notified, smTimeStamp, smData, isTerminated,
             now, frames>>
cfgVars == <<argsOk, CID, ID>>
fileVars == <<recFileMutex, recFile, disk, buf>>
loopVars == <<sampleTimeStamp, totalSize, data>>
appVars == <<envelope, serialized, pos>>
histVars == <<delivered, lockOrder, truncations, framesRead, attached,
              readsAfterTerm>>

NoEnvelope == [dataType |-> 0, senderStamp |-> 0, sent |-> 0,
               sampleTimeStamp |-> 0, serializedData |-> <<>>]

\* ------------------------------------------------------------ pure parts

\* cluon::serializeEnvelope: header bytes, length of the body, the body.
serializeEnvelope(e) ==
    LET body == <<e.dataType, e.senderStamp, e.sent, e.sampleTimeStamp>>
                \o e.serializedData
    IN  <<HdrA, HdrB, Len(body)>> \o body

\* What a reader of the file makes of a torn or foreign entry.
Torn == [dataType |-> -1, senderStamp |-> -1, sent |-> -1,
         sampleTimeStamp |-> -1, serializedData |-> <<>>]

\* Reading the file back: the envelopes it holds, in file order.
RECURSIVE Decode(_)
Decode(bytes) ==
    IF bytes = <<>> THEN <<>>
    ELSE IF \/ Len(bytes) < 3
            \/ bytes[1] # HdrA
            \/ bytes[2] # HdrB
            \/ bytes[3] < 4
            \/ Len(bytes) < 3 + bytes[3]
         THEN <<Torn>>
         ELSE LET n == bytes[3]
                  e == [dataType |-> bytes[4], senderStamp |-> bytes[5],
                        sent |-> bytes[6], sampleTimeStamp |-> bytes[7],
                        serializedData |-> SubSeq(bytes, 8, 3 + n)]
              IN  <<e>> \o Decode(SubSeq(bytes, 4 + n, Len(bytes)))

\* opendlv::proxy::ImageReading encoded by cluon::ToProtoVisitor.
EncodeImageReading(fourcc, width, height, d) ==
    <<fourcc, width, height>> \o d

Min(a, b) == IF a < b THEN a ELSE b

\* ----------------------------------------------------------------- Init
\* The region exists before main attaches to it and has the size its
\* creator gave it; the code takes sharedMemory->size() as it is, so a
\* region of no bytes is one of the inputs.  That input is followed
\* without a bus channel.
Init ==
    /\ pc = [t \in Threads |-> IF t = Main THEN "args" ELSE "idle"]
    /\ retCode = 1
    /\ argsOk \in BOOLEAN
    /\ CID \in {0, 111}
    /\ ID = 2
    /\ smValid = FALSE
    /\ smLock = None
    /\ notified = FALSE
    /\ smTimeStamp = <<FALSE, 0>>
    /\ smData \in {<<>>, [i \in 1..SmSize |-> 0]}
    /\ smData = <<>> => CID = 0
    /\ isTerminated = FALSE
    /\ now = 0
    /\ recFileMutex = None
    /\ recFile = [isOpen |-> FALSE, good |-> FALSE]
    /\ disk \in {<<>>, <<OldByte>>}
    /\ buf = <<>>
    /\ od4 = "null"
    /\ sampleTimeStamp = 0
    /\ totalSize = 0
    /\ data = <<>>
    /\ envelope = [t \in Threads |-> NoEnvelope]
    /\ serialized = [t \in Threads |-> <<>>]
    /\ pos = [t \in Threads |-> 0]
    /\ frames = 0
    /\ delivered = <<>>
    /\ lockOrder = <<>>
    /\ truncations = 0
    /\ framesRead = 0
    /\ attached = FALSE
    /\ readsAfterTerm = 0

Goto(t, l) == pc' = [pc EXCEPT ![t] = l]

\* --------------------------------------------------------- main: startup

\* The argument check does not stop main.
CheckArgs_NoCheck ==
    /\ pc[Main] = "args"
    /\ Goto(Main, "attach")
    /\ UNCHANGED <<retCode, cfgVars, envVars, fileVars, od4, loopVars,
                   appVars, histVars>>

\* if (0 == count("name") || ...) usage; else ...
CheckArgs ==
    /\ pc[Main] = "args"
    /\ Goto(Main, IF argsOk THEN "attach" ELSE "done")
    /\ UNCHANGED <<retCode, cfgVars, envVars, fileVars, od4, loopVars,
                   appVars, histVars>>

\* Attach without the check of valid().
AttachSharedMemory_NoCheck ==
    /\ pc[Main] = "attach"
    /\ \E ok \in BOOLEAN :
          /\ smValid' = ok
          /\ attached' = ok
          /\ Goto(Main, "open")
    /\ UNCHANGED <<retCode, cfgVars, smLock, notified, smTimeStamp, smData,
                   isTerminated, now, frames, fileVars, od4, loopVars,
                   appVars, delivered, lockOrder, truncations, framesRead,
                   readsAfterTerm>>

\* sharedMemory(new cluon::SharedMemory{NAME}); if (valid()) ... else cerr
AttachSharedMemory ==
    /\ pc[Main] = "attach"
    /\ \E ok \in BOOLEAN :
          /\ smValid' = ok
          /\ attached' = ok
          /\ Goto(Main, IF ok THEN "open" ELSE "done")
    /\ UNCHANGED <<retCode, cfgVars, smLock, notified, smTimeStamp, smData,
                   isTerminated, now, frames, fileVars, od4, loopVars,
                   appVars, delivered, lockOrder, truncations, framesRead,
                   readsAfterTerm>>

\* The open without the check of good().
OpenRecFile_NoCheck ==
    /\ pc[Main] = "open"
    /\ \E ok \in BOOLEAN :
          IF ok
          THEN /\ recFile' = [isOpen |-> TRUE, good |-> TRUE]
               /\ disk' = <<>>
               /\ truncations' = truncations + 1
          ELSE /\ recFile' = [isOpen |-> FALSE, good |-> FALSE]
               /\ UNCHANGED <<disk, truncations>>
    /\ Goto(Main, "subscribe")
    /\ UNCHANGED <<retCode, cfgVars, envVars, recFileMutex, buf, od4,
                   loopVars, appVars, delivered, lockOrder, framesRead,
                   attached, readsAfterTerm>>

\* std::fstream recFile(NAME_RECFILE, out|binary|trunc); if (recFile.good())
OpenRecFile ==
    /\ pc[Main] = "open"
    /\ \E ok \in BOOLEAN :
          IF ok
          THEN /\ recFile' = [isOpen |-> TRUE, good |-> TRUE]
               /\ disk' = <<>>
               /\ truncations' = truncations + 1
               /\ Goto(Main, "subscribe")
          ELSE /\ recFile' = [isOpen |-> FALSE, good |-> FALSE]
               /\ UNCHANGED <<disk, truncations>>
               /\ Goto(Main, "retcode")
    /\ UNCHANGED <<retCode, cfgVars, envVars, recFileMutex, buf, od4,
                   loopVars, appVars, delivered, lockOrder, framesRead,
                   attached, readsAfterTerm>>

\* if (CID > 0) od4.reset(new cluon::OD4Session(CID, callback))
Subscribe ==
    /\ pc[Main] = "subscribe"
    /\ od4' = IF CID > 0 THEN "running" ELSE od4
    /\ Goto(Main, "loop")
    /\ UNCHANGED <<retCode, cfgVars, envVars, fileVars, loopVars, appVars,
                   histVars>>

\* ---------------------------------------------------- main: capture loop

\* Loop condition without the termination flag.
LoopCondition_NoTerminate ==
    smValid

\* The exit of the loop decided on valid() alone.
LoopCheck_ValidOnly ==
    /\ pc[Main] = "loop"
    /\ IF smValid
       THEN Goto(Main, "wait")
       ELSE Goto(Main, "stopod4")
    /\ UNCHANGED <<retCode, cfgVars, envVars, fileVars, od4, loopVars,
                   appVars, histVars>>

\* while (sharedMemory && sharedMemory->valid() && !isTerminated.load())
LoopCondition ==
    smValid /\ ~isTerminated

LoopCheck ==
    /\ pc[Main] = "loop"
    /\ IF LoopCondition
       THEN Goto(Main, "wait")
       ELSE Goto(Main, "stopod4")
    /\ UNCHANGED <<retCode, cfgVars, envVars, fileVars, od4, loopVars,
                   appVars, histVars>>

\* sharedMemory->wait(): returns on a notification, or promptly when the
\* region is not valid.
Wait ==
    /\ pc[Main] = "wait"
    /\ notified \/ ~smValid
    /\ notified' = FALSE
    /\ Goto(Main, "stamp")
    /\ UNCHANGED <<retCode, cfgVars, smValid, smLock, smTimeStamp, smData,
                   isTerminated, now, frames, fileVars, od4, loopVars,
                   appVars, histVars>>

\* The fallback time is not taken: sampleTimeStamp keeps its old value.
Stamp_Stale ==
    /\ pc[Main] = "stamp"
    /\ totalSize' = 0
    /\ Goto(Main, "lock")
    /\ UNCHANGED <<retCode, cfgVars, envVars, fileVars, od4, sampleTimeStamp,
                   data, appVars, histVars>>

\* sampleTimeStamp = cluon::time::now(); int totalSize{0};
Stamp ==
    /\ pc[Main] = "stamp"
    /\ sampleTimeStamp' = now
    /\ totalSize' = 0
    /\ Goto(Main, "lock")
    /\ UNCHANGED <<retCode, cfgVars, envVars, fileVars, od4, data, appVars,
                   histVars>>

\* sharedMemory->lock()
LockRegion ==
    /\ pc[Main] = "lock"
    /\ smLock = None
    /\ smLock' = Main
    /\ readsAfterTerm' = readsAfterTerm + (IF isTerminated THEN 1 ELSE 0)
    /\ Goto(Main, "read")
    /\ UNCHANGED <<retCode, cfgVars, smValid, notified, smTimeStamp, smData,
                   isTerminated, now, frames, fileVars, od4, loopVars,
                   appVars, delivered, lockOrder, truncations, framesRead,
                   attached>>

\* r = getTimeStamp(); sampleTimeStamp = (r.first ? r.second : sampleTimeStamp);
\* std::string data{sharedMemory->data(), sharedMemory->size()};
ReadRegion ==
    /\ pc[Main] = "read"
    /\ sampleTimeStamp' = IF smTimeStamp[1] THEN smTimeStamp[2]
                          ELSE sampleTimeStamp
    /\ data' = smData
    /\ framesRead' = framesRead + (IF Len(smData) > 0 THEN 1 ELSE 0)
    /\ Goto(Main, "unlock")
    /\ UNCHANGED <<retCode, cfgVars, envVars, fileVars, od4, totalSize,
                   appVars, delivered, lockOrder, truncations, attached,
                   readsAfterTerm>>

\* The region lock is not released after the copy.
UnlockRegion_Missing ==
    /\ pc[Main] = "unlock"
    /\ Goto(Main, "check")
    /\ UNCHANGED <<retCode, cfgVars, envVars, fileVars, od4, loopVars,
                   appVars, histVars>>

\* sharedMemory->unlock()
UnlockRegion ==
    /\ pc[Main] = "unlock"
    /\ smLock' = None
    /\ Goto(Main, "check")
    /\ UNCHANGED <<retCode, cfgVars, smValid, notified, smTimeStamp, smData,
                   isTerminated, now, frames, fileVars, od4, loopVars,
                   appVars, histVars>>

\* The size check made on the length of the snapshot.
CheckSize_LenData ==
    /\ pc[Main] = "check"
    /\ IF 0 < Len(data)
       THEN /\ envelope' = [envelope EXCEPT ![Main] =
                   [dataType |-> ImageReadingID,
                    senderStamp |-> ID,
                    sent |-> now,
                    sampleTimeStamp |-> sampleTimeStamp,
                    serializedData |->
                        EncodeImageReading(FourccXYZ, WIDTH, HEIGHT, data)]]
            /\ Goto(Main, "acquire")
       ELSE /\ UNCHANGED envelope
            /\ Goto(Main, "loop")
    /\ data' = <<>>
    /\ UNCHANGED <<retCode, cfgVars, envVars, fileVars, od4, sampleTimeStamp,
                   totalSize, serialized, pos, histVars>>

\* The size check written with <= instead of <.
CheckSize_OffByOne ==
    /\ pc[Main] = "check"
    /\ IF 0 <= totalSize
       THEN /\ envelope' = [envelope EXCEPT ![Main] =
                   [dataType |-> ImageReadingID,
                    senderStamp |-> ID,
                    sent |-> now,
                    sampleTimeStamp |-> sampleTimeStamp,
                    serializedData |->
                        EncodeImageReading(FourccXYZ, WIDTH, HEIGHT, data)]]
            /\ Goto(Main, "acquire")
       ELSE /\ UNCHANGED envelope
            /\ Goto(Main, "loop")
    /\ data' = <<>>
    /\ UNCHANGED <<retCode, cfgVars, envVars, fileVars, od4, sampleTimeStamp,
                   totalSize, serialized, pos, histVars>>

\* if (0 < totalSize) { ImageReading ir ...; Envelope envelope ...; }
\* The snapshot goes out of scope when the branch is not taken.
CheckSize ==
    /\ pc[Main] = "check"
    /\ IF 0 < totalSize
       THEN /\ envelope' = [envelope EXCEPT ![Main] =
                   [dataType |-> ImageReadingID,
                    senderStamp |-> ID,
                    sent |-> now,
                    sampleTimeStamp |-> sampleTimeStamp,
                    serializedData |->
                        EncodeImageReading(FourccXYZ, WIDTH, HEIGHT, data)]]
            /\ Goto(Main, "acquire")
       ELSE /\ UNCHANGED envelope
            /\ Goto(Main, "loop")
    /\ data' = <<>>
    /\ UNCHANGED <<retCode, cfgVars, envVars, fileVars, od4, sampleTimeStamp,
                   totalSize, serialized, pos, histVars>>

\* ------------------------------------- append: both writers of the file
\* The callback (lines 97-102) and the capture loop (lines 141-149) run the
\* same four statements; t is the thread running them.

\* Acquire without waiting for the mutex to be free.
Acquire_NoMutex(t) ==
    /\ pc[t] = "acquire"
    /\ recFileMutex' = t
    /\ lockOrder' = Append(lockOrder, envelope[t])
    /\ Goto(t, "serialize")
    /\ UNCHANGED <<retCode, cfgVars, envVars, recFile, disk, buf, od4,
                   loopVars, appVars, delivered, truncations, framesRead,
                   attached, readsAfterTerm>>

\* std::lock_guard<std::mutex> lck(recFileMutex);
Acquire(t) ==
    /\ pc[t] = "acquire"
    /\ recFileMutex = None
    /\ recFileMutex' = t
    /\ lockOrder' = Append(lockOrder, envelope[t])
    /\ Goto(t, "serialize")
    /\ UNCHANGED <<retCode, cfgVars, envVars, recFile, disk, buf, od4,
                   loopVars, appVars, delivered, truncations, framesRead,
                   attached, readsAfterTerm>>

\* Serialize reading the envelope after it was moved from.
Serialize_Moved(t) ==
    /\ pc[t] = "serialize"
    /\ serialized' = [serialized EXCEPT ![t] = serializeEnvelope(NoEnvelope)]
    /\ pos' = [pos EXCEPT ![t] = 0]
    /\ Goto(t, "write")
    /\ UNCHANGED <<retCode, cfgVars, envVars, fileVars, od4, loopVars,
                   envelope, histVars>>

\* std::string data{cluon::serializeEnvelope(std::move(envelope))};
Serialize(t) ==
    /\ pc[t] = "serialize"
    /\ serialized' = [serialized EXCEPT ![t] = serializeEnvelope(envelope[t])]
    /\ pos' = [pos EXCEPT ![t] = 0]
    /\ Goto(t, "write")
    /\ UNCHANGED <<retCode, cfgVars, envVars, fileVars, od4, loopVars,
                   envelope, histVars>>

\* recFile.write(data.data(), data.size()): one chunk of the string goes to
\* the stream buffer; the buffer may be handed to the operating system.
Write(t) ==
    /\ pc[t] = "write"
    /\ LET n == Min(ChunkSize, Len(serialized[t]) - pos[t])
           chunk == SubSeq(serialized[t], pos[t] + 1, pos[t] + n)
       IN  /\ \E spill \in BOOLEAN :
                 IF spill
                 THEN /\ disk' = disk \o buf \o chunk
                      /\ buf' = <<>>
                 ELSE /\ buf' = buf \o chunk
                      /\ UNCHANGED disk
           /\ pos' = [pos EXCEPT ![t] = pos[t] + n]
           /\ Goto(t, IF pos[t] + n = Len(serialized[t]) THEN "flush"
                      ELSE "write")
    /\ UNCHANGED <<retCode, cfgVars, envVars, recFileMutex, recFile, od4,
                   loopVars, envelope, serialized, histVars>>

\* Flush left out: the bytes stay in the stream buffer.
Flush_Missing(t) ==
    /\ pc[t] = "flush"
    /\ Goto(t, "release")
    /\ UNCHANGED <<retCode, cfgVars, envVars, fileVars, od4, loopVars,
                   appVars, histVars>>

\* Flush after a seek to the start of the file: the file is rewritten.
Flush_Rewrite(t) ==
    /\ pc[t] = "flush"
    /\ disk' = buf
    /\ buf' = <<>>
    /\ Goto(t, "release")
    /\ UNCHANGED <<retCode, cfgVars, envVars, recFileMutex, recFile, od4,
                   loopVars, appVars, histVars>>

\* recFile.flush();
Flush(t) ==
    /\ pc[t] = "flush"
    /\ disk' = disk \o buf
    /\ buf' = <<>>
    /\ Goto(t, "release")
    /\ UNCHANGED <<retCode, cfgVars, envVars, recFileMutex, recFile, od4,
                   loopVars, appVars, histVars>>

\* The mutex locked by hand and not unlocked at the end of the scope.
Release_KeepsMutex(t) ==
    /\ pc[t] = "release"
    /\ envelope' = [envelope EXCEPT ![t] = NoEnvelope]
    /\ serialized' = [serialized EXCEPT ![t] = <<>>]
    /\ pos' = [pos EXCEPT ![t] = 0]
    /\ Goto(t, IF t = Main THEN "loop" ELSE "idle")
    /\ UNCHANGED <<retCode, cfgVars, envVars, fileVars, od4, loopVars,
                   histVars>>

\* end of the scope of lck: the mutex is released, the locals are destroyed.
Release(t) ==
    /\ pc[t] = "release"
    /\ recFileMutex' = None
    /\ envelope' = [envelope EXCEPT ![t] = NoEnvelope]
    /\ serialized' = [serialized EXCEPT ![t] = <<>>]
    /\ pos' = [pos EXCEPT ![t] = 0]
    /\ Goto(t, IF t = Main THEN "loop" ELSE "idle")
    /\ UNCHANGED <<retCode, cfgVars, envVars, recFile, disk, buf, od4,
                   loopVars, histVars>>

\* ------------------------------------------------------- bus callback

\* The bus runtime invokes the callback with an envelope on thread b.  The
\* bus threads are interchangeable: the runtime takes the first idle one.
\* The envelope was built by its sender: the n-th one carries the time n of
\* the sender's clock and the payload n.
Deliver(b) ==
    /\ od4 = "running"
    /\ pc[b] = "idle"
    /\ \A c \in Bus : c < b => pc[c] # "idle"
    /\ Len(delivered) < MaxDeliver
    /\ LET n == Len(delivered) + 1
           e == [dataType |-> BusDataType,
                 senderStamp |-> BusSender,
                 sent |-> n,
                 sampleTimeStamp |-> n,
                 serializedData |-> <<n>>]
       IN  /\ envelope' = [envelope EXCEPT ![b] = e]
           /\ delivered' = Append(delivered, e)
    /\ Goto(b, "acquire")
    /\ UNCHANGED <<retCode, cfgVars, envVars, fileVars, od4, loopVars,
                   serialized, pos, lockOrder, truncations, framesRead,
                   attached, readsAfterTerm>>

\* -------------------------------------------------------- main: exit

\* The session is stopped but main does not wait for its threads.
StopOD4_NoJoin ==
    /\ pc[Main] = "stopod4"
    /\ od4' = IF od4 = "running" THEN "stopped" ELSE od4
    /\ Goto(Main, "retcode")
    /\ UNCHANGED <<retCode, cfgVars, envVars, fileVars, loopVars, appVars,
                   histVars>>

\* End of the block of od4: the session is destroyed, no callback starts
\* after this.
StopOD4 ==
    /\ pc[Main] = "stopod4"
    /\ od4' = IF od4 = "running" THEN "stopped" ELSE od4
    /\ Goto(Main, "join")
    /\ UNCHANGED <<retCode, cfgVars, envVars, fileVars, loopVars, appVars,
                   histVars>>

\* The destructor of the session returns when its threads have ended, that
\* is when no callback is running.
JoinOD4 ==
    /\ pc[Main] = "join"
    /\ \A b \in Bus : pc[b] = "idle"
    /\ Goto(Main, "retcode")
    /\ UNCHANGED <<retCode, cfgVars, envVars, fileVars, od4, loopVars,
                   appVars, histVars>>

\* retCode set to 0 only when something was recorded.
SetRetCode_OnlyIfWritten ==
    /\ pc[Main] = "retcode"
    /\ retCode' = IF lockOrder # <<>> THEN 0 ELSE retCode
    /\ Goto(Main, "close")
    /\ UNCHANGED <<cfgVars, envVars, fileVars, od4, loopVars, appVars,
                   histVars>>

\* retCode = 0;
SetRetCode ==
    /\ pc[Main] = "retcode"
    /\ retCode' = 0
    /\ Goto(Main, "close")
    /\ UNCHANGED <<cfgVars, envVars, fileVars, od4, loopVars, appVars,
                   histVars>>

\* End of the block of recFile: the stream is flushed and closed; then
\* return retCode.
CloseRecFile ==
    /\ pc[Main] = "close"
    /\ IF recFile.isOpen
       THEN /\ disk' = disk \o buf
            /\ buf' = <<>>
            /\ recFile' = [recFile EXCEPT !.isOpen = FALSE]
       ELSE UNCHANGED <<disk, buf, recFile>>
    /\ Goto(Main, "done")
    /\ UNCHANGED <<retCode, cfgVars, envVars, recFileMutex, od4, loopVars,
                   appVars, histVars>>

\* -------------------------------------------------------- environment

\* The external producer locks the region and stores a frame.
ProducerWrite ==
    /\ smValid
    /\ smLock = None
    /\ frames < MaxFrames
    /\ smLock' = Producer
    /\ frames' = frames + 1
    /\ smData' = [i \in 1..Len(smData) |-> frames + 1]
    /\ \E withStamp \in BOOLEAN :
          smTimeStamp' = IF withStamp THEN <<TRUE, now>> ELSE <<FALSE, 0>>
    /\ UNCHANGED <<pc, retCode, cfgVars, smValid, notified, isTerminated,
                   now, fileVars, od4, loopVars, appVars, histVars>>

\* The external producer unlocks the region and notifies the waiters.
ProducerNotify ==
    /\ smLock = Producer
    /\ smLock' = None
    /\ notified' = TRUE
    /\ UNCHANGED <<pc, retCode, cfgVars, smValid, smTimeStamp, smData,
                   isTerminated, now, frames, fileVars, od4, loopVars,
                   appVars, histVars>>

\* The shared memory region goes away.
Invalidate ==
    /\ smValid
    /\ smLock # Producer
    /\ smValid' = FALSE
    /\ UNCHANGED <<pc, retCode, cfgVars, smLock, notified, smTimeStamp,
                   smData, isTerminated, now, frames, fileVars, od4,
                   loopVars, appVars, histVars>>

\* SIGINT or SIGTERM: the handler sets the flag.
Terminate ==
    /\ ~isTerminated
    /\ isTerminated' = TRUE
    /\ UNCHANGED <<pc, retCode, cfgVars, smValid, smLock, notified,
                   smTimeStamp, smData, now, frames, fileVars, od4,
                   loopVars, appVars, histVars>>

\* Time passes.
Tick ==
    /\ now < MaxTime
    /\ now' = now + 1
    /\ UNCHANGED <<pc, retCode, cfgVars, smValid, smLock, notified,
                   smTimeStamp, smData, isTerminated, frames, fileVars, od4,
                   loopVars, appVars, histVars>>

\* ------------------------------------------------------ specification
Next ==
    \/ CheckArgs
    \/ AttachSharedMemory
    \/ OpenRecFile
    \/ Subscribe
    \/ LoopCheck
    \/ Wait
    \/ Stamp
    \/ LockRegion
    \/ ReadRegion
    \/ UnlockRegion
    \/ CheckSize
    \/ \E t \in Threads : Acquire(t)
    \/ \E t \in Threads : Serialize(t)
    \/ \E t \in Threads : Write(t)
    \/ \E t \in Threads : Flush(t)
    \/ \E t \in Threads : Release(t)
    \/ \E b \in Bus : Deliver(b)
    \/ StopOD4
    \/ JoinOD4
    \/ SetRetCode
    \/ CloseRecFile
    \/ ProducerWrite
    \/ ProducerNotify
    \/ Invalidate
    \/ Terminate
    \/ Tick

Spec == Init /\ [][Next]_vars

\* The steps of main outside the append.
MainStep ==
    \/ CheckArgs
    \/ AttachSharedMemory
    \/ OpenRecFile
    \/ Subscribe
    \/ LoopCheck
    \/ Wait
    \/ Stamp
    \/ LockRegion
    \/ ReadRegion
    \/ UnlockRegion
    \/ CheckSize
    \/ StopOD4
    \/ JoinOD4
    \/ SetRetCode
    \/ CloseRecFile

\* The steps of thread t inside the append, after it has the mutex.
AppendStep(t) ==
    \/ Serialize(t)
    \/ Write(t)
    \/ Flush(t)
    \/ Release(t)

\* Every thread that can run does run, a thread waiting for recFileMutex
\* gets it when it is free again and again, write and flush return, and
\* the producer leaves the region lock.  Nothing makes a frame arrive: a
\* wait for a frame may last forever.
FairSpec ==
    /\ Spec
    /\ WF_vars(MainStep)
    /\ \A t \in Threads : WF_vars(AppendStep(t))
    /\ \A t \in Threads : SF_vars(Acquire(t))
    /\ WF_vars(ProducerNotify)

\* ------------------------------------------------------------- helpers

IsPrefix(a, b) == Len(a) <= Len(b) /\ SubSeq(b, 1, Len(a)) = a

Front(q) == SubSeq(q, 1, Len(q) - 1)

RECURSIVE SerializeAll(_)
SerializeAll(es) ==
    IF es = <<>> THEN <<>>
    ELSE serializeEnvelope(Head(es)) \o SerializeAll(Tail(es))

\* Threads between the lock_guard and the end of its scope.
InSection == {t \in Threads : pc[t] \in {"serialize", "write", "flush",
                                         "release"}}

\* Threads whose envelope is not yet completely handed to the stream.
Writing == {t \in Threads : pc[t] \in {"serialize", "write"}}

Opened == truncations = 1

Whole(bytes) ==
    LET es == Decode(bytes) IN \A i \in 1..Len(es) : es[i] # Torn

Occurrences(e, es) == Cardinality({i \in 1..Len(es) : es[i] = e})

\* --------------------------------------------------------------- claims

\* C1: at most one thread is between lock and unlock of recFileMutex, and
\* the file is the concatenation of the serialized envelopes in the order
\* in which their appends acquired recFileMutex, the last one possibly
\* still being written by the holder of the mutex.
C1_Ordering ==
    /\ Cardinality(InSection) <= 1
    /\ Opened =>
          IF Writing = {}
          THEN disk \o buf = SerializeAll(lockOrder)
          ELSE \E t \in Writing :
                  disk \o buf = SerializeAll(Front(lockOrder))
                                \o SubSeq(serialized[t], 1, pos[t])

\* C1 witness: a callback is in the middle of its write while another
\* callback waits for the mutex.
C1_Witness ==
    \E t \in Bus, u \in Bus :
        /\ t # u
        /\ pc[t] = "write"
        /\ pos[t] > 0
        /\ pc[u] = "acquire"

\* C2 (as claimed): with no bus channel, every snapshot of nonzero size has
\* put exactly one envelope into the file when the loop is back at its
\* head (3 envelopes after 3 frames), each with senderStamp = ID, with
\* non-decreasing sampleTimeStamp in file order.
C2_Claim ==
    (CID = 0 /\ pc[Main] = "loop") =>
        LET es == Decode(disk)
        IN  /\ Len(es) = framesRead
            /\ \A i \in 1..Len(es) : es[i].senderStamp = ID
            /\ \A i \in 1..Len(es) - 1 :
                  es[i].sampleTimeStamp <= es[i + 1].sampleTimeStamp

\* C3 (as claimed): with a bus channel, after one snapshot of nonzero size
\* and one envelope from the bus the file holds exactly 2 whole envelopes,
\* in the order of lock acquisition.
C3_Claim ==
    (CID > 0 /\ pc[Main] = "done" /\ framesRead = 1 /\ Len(delivered) = 1) =>
        /\ Len(Decode(disk)) = 2
        /\ Whole(disk)
        /\ Decode(disk) = lockOrder

C5_Claim ==
    (pc[Main] = "done" /\ attached /\ ~recFile.good) => retCode # 0

\* C6: if the attach fails, main goes straight to the exit with a non-zero
\* status: no loop iteration, no bus session, no file opened.
C6_AttachFailure ==
    (argsOk /\ ~attached /\ pc[Main] \notin {"args", "attach"}) =>
        /\ pc[Main] = "done"
        /\ retCode # 0
        /\ od4 = "null"
        /\ framesRead = 0
        /\ truncations = 0
        /\ ~recFile.isOpen

\* C6 witness: the process has exited after a failed attach.
C6_Witness ==
    pc[Main] = "done" /\ argsOk /\ ~attached

\* C7: if the attach succeeded and the file was opened, the exit status is
\* zero.
C7_ExitZero ==
    (pc[Main] = "done" /\ attached /\ recFile.good) => retCode = 0

\* C7 witness: exit after the termination flag ended the loop with the
\* frame source still valid and nothing written.
C7_Witness ==
    /\ pc[Main] = "done"
    /\ attached
    /\ recFile.good
    /\ isTerminated
    /\ smValid
    /\ lockOrder = <<>>

C9_FlushedBeforeRelease ==
    Opened =>
        /\ recFileMutex = None => (buf = <<>> /\ Whole(disk))
        /\ lockOrder # <<>> =>
              IsPrefix(SerializeAll(Front(lockOrder)), disk)

\* C9 witness: a second envelope is written and not yet flushed while the
\* first one is on disk.
C9_Witness ==
    \E t \in Threads :
        /\ pc[t] = "flush"
        /\ buf # <<>>
        /\ Len(lockOrder) >= 2

\* C10: the file is truncated at most once, by the open, before any
\* append; afterwards its content only grows at the end; and only the open
\* and the holder of recFileMutex in its write or flush change it.
C10_AppendOnly ==
    [][/\ truncations' <= 1
       /\ truncations' # truncations =>
             (pc[Main] = "open" /\ lockOrder = <<>>)
       /\ Opened =>
             (IsPrefix(disk, disk') /\ IsPrefix(disk \o buf, disk' \o buf'))
       /\ (disk' # disk \/ buf' # buf) =>
             \/ pc[Main] = "open" /\ pc'[Main] = "subscribe"
             \/ /\ recFileMutex \in Threads
                /\ pc[recFileMutex] \in {"write", "flush"}
                /\ \A u \in Threads \ {recFileMutex} : pc'[u] = pc[u]
                /\ pc'[recFileMutex] \in {"write", "flush", "release"}]_vars

\* C10 witness: the file was truncated by the open and two envelopes were
\* appended to it.
C10_Witness ==
    /\ Opened
    /\ recFileMutex = None
    /\ Len(Decode(disk)) >= 2

C12_DeadSizeCheck ==
    /\ pc[Main] = "check" => totalSize = 0
    /\ pc[Main] \notin {"acquire", "serialize", "write", "flush", "release"}
    /\ \A i \in 1..Len(lockOrder) : Occurrences(lockOrder[i], delivered) = 1
    /\ (CID = 0 /\ Opened) => (disk = <<>> /\ buf = <<>>)

\* C12 witness: with no bus channel the loop is back at its head after a
\* snapshot of nonzero size and the file is empty.
C12_Witness ==
    /\ CID = 0
    /\ Opened
    /\ pc[Main] = "loop"
    /\ framesRead >= 1
    /\ disk = <<>>

\* C14: the step after the wait sets sampleTimeStamp to the current time,
\* the read under the region lock replaces it by the notification time
\* when there is one and keeps it otherwise, and no other step changes it.
C14_SampleTimeStamp ==
    [][/\ (pc[Main] = "stamp" /\ pc'[Main] = "lock") =>
              sampleTimeStamp' = now
       /\ (pc[Main] = "read" /\ pc'[Main] = "unlock") =>
              sampleTimeStamp' = IF smTimeStamp[1] THEN smTimeStamp[2]
                                 ELSE sampleTimeStamp
       /\ sampleTimeStamp' # sampleTimeStamp =>
              \/ pc[Main] = "stamp" /\ pc'[Main] = "lock"
              \/ pc[Main] = "read" /\ pc'[Main] = "unlock"]_vars

\* C14 witness: in a second iteration, without a notification time, the
\* snapshot carries the current time, which differs from the time of the
\* first iteration.
C14_Witness ==
    /\ pc[Main] = "unlock"
    /\ ~smTimeStamp[1]
    /\ framesRead = 2
    /\ sampleTimeStamp = now
    /\ now > 0

\* C16 (as claimed): when the frame source is not valid, main does not
\* lock the region and does not read it.
C16_Claim ==
    [][~smValid => /\ ~(pc[Main] = "lock" /\ pc'[Main] = "read")
                   /\ ~(pc[Main] = "read" /\ pc'[Main] = "unlock")]_vars

\* C17: if the file could not be opened, main goes to the exit: no bus
\* session, no iteration of the loop, nothing taken to be written, and the
\* file at the output path is not touched.
C17_OpenFailure ==
    (attached /\ ~recFile.good /\ pc[Main] # "open") =>
        /\ pc[Main] \in {"retcode", "close", "done"}
        /\ od4 = "null"
        /\ framesRead = 0
        /\ lockOrder = <<>>
        /\ buf = <<>>
        /\ truncations = 0
        /\ disk \in {<<>>, <<OldByte>>}

\* C17 witness: the process has exited after a failed open.
C17_Witness ==
    pc[Main] = "done" /\ attached /\ ~recFile.good

\* C19: whenever a callback is running, the session exists and the file is
\* open; the file is closed only when no callback is running.
C19_CallbackFileOpen ==
    /\ \A b \in Bus : pc[b] # "idle" => (recFile.isOpen /\ od4 # "null")
    /\ od4 # "null" => recFile.good
    /\ pc[Main] \in {"retcode", "close", "done"} =>
          \A b \in Bus : pc[b] = "idle"

\* C19 witness: a callback is writing while main has left the loop and is
\* waiting for the session to end.
C19_Witness ==
    /\ pc[Main] = "join"
    /\ \E b \in Bus : pc[b] = "write" /\ pos[b] > 0
    /\ recFile.isOpen

\* C20: the file at the output path is changed only after the arguments
\* were accepted and the attach succeeded.
C20_TruncateAfterAttach ==
    [][(disk' # disk \/ truncations' # truncations \/ recFile' # recFile) =>
          (argsOk /\ attached)]_vars

\* C20 witness: the process has exited after a failed attach and the file
\* that was at the output path is still there.
C20_Witness ==
    /\ pc[Main] = "done"
    /\ argsOk
    /\ ~attached
    /\ disk = <<OldByte>>
    /\ truncations = 0

\* C13: when the snapshot has no bytes, the size check takes main back to
\* the head of the loop without building an envelope, without taking
\* recFileMutex and without a change of the file; from the head of the
\* loop main goes to the next wait when the loop condition holds.
C13_ZeroLengthSkipped ==
    [][/\ (pc[Main] = "check" /\ Len(data) = 0 /\ pc'[Main] # "check") =>
              /\ pc'[Main] = "loop"
              /\ envelope'[Main] = NoEnvelope
              /\ lockOrder' = lockOrder
              /\ recFileMutex' = recFileMutex
              /\ disk' = disk
              /\ buf' = buf
       /\ (pc[Main] = "loop" /\ LoopCondition /\ pc'[Main] # "loop") =>
              pc'[Main] = "wait"]_vars

\* C13 witness: the region has no bytes, a frame was signalled, main has
\* run the iteration for it and is blocked in the next wait; the file is
\* empty.
C13_Witness ==
    /\ pc[Main] = "wait"
    /\ Opened
    /\ smValid
    /\ smData = <<>>
    /\ frames >= 1
    /\ smLock = None
    /\ ~notified
    /\ disk = <<>>

\* main is blocked in wait(): no frame was signalled and the region is
\* valid.
BlockedInWait == pc[Main] = "wait" /\ ~notified /\ smValid

\* C15: once the flag is set main does not begin another iteration; it
\* reaches the exit unless it is blocked in the wait; and a thread that is
\* in the append goes on to the end of the scope of the lock: the mutex
\* becomes free again with the envelope written and flushed.
C15_TerminationEndsLoop ==
    /\ [][/\ isTerminated => ~(pc[Main] = "loop" /\ pc'[Main] = "wait")
          /\ \A t \in Threads :
                (pc[t] \in {"serialize", "write", "flush"}
                 /\ pc'[t] # pc[t]) =>
                    pc'[t] \in {"write", "flush", "release"}]_vars
    /\ isTerminated ~> (pc[Main] = "done" \/ BlockedInWait)
    /\ (recFileMutex # None) ~>
          (recFileMutex = None /\ buf = <<>> /\ Whole(disk))

\* C15 witness: the flag is set while a callback is in the middle of its
\* write and main is in an iteration.
C15_Witness ==
    /\ isTerminated
    /\ pc[Main] = "read"
    /\ \E b \in Bus : pc[b] = "write" /\ pos[b] > 0

\* C18: recFileMutex is held only inside the append; main holds it neither
\* in the wait nor with the region lock; and a callback that waits for
\* recFileMutex gets it and returns, also when main stays blocked in the
\* wait.
C18_NoDeadlock ==
    /\ [](recFileMutex # None =>
             pc[recFileMutex] \in {"serialize", "write", "flush",
                                   "release"})
    /\ [](recFileMutex = Main => (pc[Main] # "wait" /\ smLock # Main))
    /\ \A b \in Bus : (pc[b] = "acquire") ~> (pc[b] = "idle")

\* C18 witness: a callback waits for recFileMutex, which another callback
\* holds, while main is blocked in the wait.
C18_Witness ==
    /\ BlockedInWait
    /\ \E b \in Bus, c \in Bus :
          /\ pc[b] = "acquire"
          /\ recFileMutex = c
          /\ pc[c] = "write"

====
